---- MODULE Spec2Model ----
(***************************************************************************)
(* The batch runners batch_generate_v2.py (script "v2") and                *)
(* batch_generate.py (script "v1") driving generator.generate, which       *)
(* drives model_client.call_llm.  One behaviour is a sequence of process   *)
(* runs of one script, with one command line, over one output directory.   *)
(*                                                                         *)
(* Strings are sequences of one-character strings.  Durations are in       *)
(* tenths of a second.                                                     *)
(*                                                                         *)
(* generator.py line 95 builds the request with PROMPT.format(...).  The   *)
(* template as shipped holds the JSON skeleton with unescaped braces, so   *)
(* str.format raises KeyError for every name and features.  The variable   *)
(* prompt_ok is FALSE for the template as shipped and TRUE for a template  *)
(* whose braces format; every behaviour of the shipped build is a          *)
(* behaviour with prompt_ok = FALSE.                                       *)
(***************************************************************************)
EXTENDS Integers, Sequences, FiniteSets, TLC

\* ------------------------------------------------------------------ bounds
\* rows of the input CSV (work items 0 .. NumItems-1)
NumItems == 2
\* process runs over the same output directory in one behaviour
MaxRuns == 2
\* largest --max-retries / --retry value tried
MaxRetriesBound == 1

\* ------------------------------------------------------- program constants
\* --max-backoff default, 60.0 s
MAX_BACKOFF == 600
\* --backoff-base default, 2.0 s
BACKOFF_BASE == 20
\* jitter=0.3 of calc_backoff, in tenths
JITTER_TENTHS == 3
\* lower clamp of calc_backoff, 0.5 s
MIN_BACKOFF == 5
\* the cooldown of 5 s per consecutive 429
COOLDOWN_STEP == 50
\* --delay-increase-factor default 1.5, as FACTOR_NUM / FACTOR_DEN
FACTOR_NUM == 3
FACTOR_DEN == 2

\* ----------------------------------------------------------------- strings
\* str.lower(), over the alphabet the documents below use
lower(s) == [j \in 1..Len(s) |-> IF s[j] = "C" THEN "c" ELSE s[j]]

\* Python's `k in s` for strings: k occurs in s as a substring
contains(s, k) ==
    \E j \in 0..(Len(s) - Len(k)) : SubSeq(s, j + 1, j + Len(k)) = k

\* Python's s.count(k): non-overlapping occurrences, scanning from the left
RECURSIVE str_count(_, _)
str_count(s, k) ==
    IF k = <<>> THEN Len(s) + 1
    ELSE IF Len(s) < Len(k) THEN 0
    ELSE IF SubSeq(s, 1, Len(k)) = k
         THEN 1 + str_count(SubSeq(s, Len(k) + 1, Len(s)), k)
         ELSE str_count(SubSeq(s, 2, Len(s)), k)

\* the keys of a dict built by inserting the elements of a list in order:
\* the distinct elements, in order of first occurrence
RECURSIVE dict_keys(_)
dict_keys(list) ==
    IF list = <<>> THEN <<>>
    ELSE LET init == dict_keys(SubSeq(list, 1, Len(list) - 1))
             last == list[Len(list)]
         IN IF \E j \in 1..Len(init) : init[j] = last THEN init
            ELSE Append(init, last)

\* dict.get(key, default)
dict_get(d, key, default) == IF key \in DOMAIN d THEN d[key] ELSE default

\* --------------------------------------------------------------- documents
\* The JSON objects the service's text can parse to.
CatFood == <<"C", "a", "t", " ", "f", "o", "o", "d">>
Category == <<"c", "a", "t", "e", "g", "o", "r", "y">>
Cat == <<"c", "a", "t">>
Dog == <<"d", "o", "g">>

DocCat ==
    [title |-> CatFood, meta_description |-> Category, short_description |-> Dog,
     long_description |-> Category, bullets |-> <<Dog>>, keywords |-> <<Cat, Dog>>]

\* a JSON object that has a title and nothing else
DocTitleOnly == [title |-> CatFood]

Docs == {DocCat, DocTitleOnly}

\* ------------------------------------------------------------ generator.py
\* calculate_seo(data)
calculate_seo(data) ==
    LET title == dict_get(data, "title", <<>>)
        meta == dict_get(data, "meta_description", <<>>)
        keywords == dict_get(data, "keywords", <<>>)
        long_desc == lower(dict_get(data, "long_description", <<>>))
        kws == dict_keys(keywords)
        kwset == {kws[j] : j \in 1..Len(kws)}
        title_has == [kw \in kwset |-> contains(lower(title), lower(kw))]
        meta_has == [kw \in kwset |-> contains(lower(meta), lower(kw))]
        density == [kw \in kwset |-> str_count(long_desc, lower(kw))]
        missing(has, where) ==
            LET pick(j) == ~has[kws[j]]
                F[j \in 0..Len(kws)] ==
                    IF j = 0 THEN <<>>
                    ELSE IF pick(j)
                         THEN Append(F[j - 1], [not_found_in |-> where, kw |-> kws[j]])
                         ELSE F[j - 1]
            IN F[Len(kws)]
    IN [metrics |-> [title_length |-> Len(title),
                     meta_length |-> Len(meta),
                     title_has_primary |-> title_has,
                     meta_has_primary |-> meta_has,
                     keyword_density |-> density],
        suggestions |-> missing(title_has, "title") \o missing(meta_has, "meta description")]

\* the FAST_MODE branch of generate, lines 109-117
fast_seo(data) ==
    [metrics |-> [title_length |-> Len(dict_get(data, "title", <<>>)),
                  meta_length |-> Len(dict_get(data, "meta_description", <<>>))],
     suggestions |-> <<>>]

\* ------------------------------------------------------------ seo_utils.py
\* \w of the regular expressions, over the alphabet the documents use
word_char(c) == c # " "

\* count_occurrences(text, token), lines 18-21: the matches of
\* \b token \b in text.lower(), for a token of word characters
count_occurrences(text, token) ==
    IF text = <<>> \/ token = <<>> THEN 0
    ELSE LET t == lower(text)
             n == Len(token)
         IN Cardinality({j \in 0..(Len(t) - n) :
                /\ SubSeq(t, j + 1, j + n) = token
                /\ (j = 0 \/ ~word_char(t[j]))
                /\ (j + n = Len(t) \/ ~word_char(t[j + n + 1]))})

\* --------------------------------------------------------- model_client.py
\* What the network does with one requests.post: an HTTP response (kind
\* "http") or a connection error (kind "conn"); a 200 response carries the
\* message content, a text that either is JSON for one of Docs or is not JSON.
Contents == [valid : {TRUE}, value : Docs] \cup {[valid |-> FALSE, value |-> <<>>]}

\* the Retry-After header of an error response: absent (<<>>) or a number of
\* seconds, here in tenths
Hints == {<<>>, <<20>>}

Exchanges ==
    [kind : {"http"}, status : {429}, content : {<<>>}, retry_after : Hints]
    \cup [kind : {"http"}, status : {200}, content : Contents]

Returned(v, n) == [raised |-> FALSE, value |-> v, exc |-> [type |-> "None"], llm_calls |-> n]
Raised(e, n) == [raised |-> TRUE, value |-> <<>>, exc |-> e, llm_calls |-> n]

\* call_llm(prompt): x is what the network does with the request
call_llm(key, x) ==
    IF ~key THEN Raised([type |-> "ValueError"], 1)
    ELSE IF x.kind = "conn" THEN Raised([type |-> "ConnectionError"], 1)
    ELSE IF x.status >= 400
         THEN Raised([type |-> "RuntimeError", msg |-> <<"HTTP", x.status>>,
                      cause |-> [type |-> "HTTPError",
                                 response |-> [status_code |-> x.status,
                                               retry_after |-> x.retry_after]]], 1)
         ELSE Returned(x.content, 1)

\* json.loads(raw)
json_loads(raw) ==
    IF raw.valid THEN Returned(raw.value, 0)
    ELSE Raised([type |-> "JSONDecodeError"], 0)

\* a safe_json_load that asks for one more repair when the repaired text does
\* not parse
safe_json_load_again(key, raw_output, x) ==
    IF ~json_loads(raw_output).raised THEN json_loads(raw_output)
    ELSE LET fixed == call_llm(key, x)
         IN IF fixed.raised THEN fixed
            ELSE IF ~json_loads(fixed.value).raised
                 THEN [json_loads(fixed.value) EXCEPT !.llm_calls = 1]
                 ELSE [json_loads(call_llm(key, x).value) EXCEPT !.llm_calls = 2]

\* safe_json_load(raw_output): x is the exchange of the repair request
safe_json_load(key, raw_output, x) ==
    IF ~json_loads(raw_output).raised THEN json_loads(raw_output)
    ELSE LET fixed == call_llm(key, x)
         IN IF fixed.raised THEN fixed
            ELSE [json_loads(fixed.value) EXCEPT !.llm_calls = 1]

\* generate(name, features): x1 and x2 are the exchanges of the request and
\* of the repair request (x2 is used only when the first text does not parse)
generate(fmt_ok, key, fast, x1, x2) ==
    IF ~fmt_ok THEN Raised([type |-> "KeyError"], 0)
    ELSE LET raw_output == call_llm(key, x1)
         IN IF raw_output.raised THEN raw_output
            ELSE LET first == json_loads(raw_output.value)
                     data == IF ~first.raised THEN first
                             ELSE safe_json_load(key, raw_output.value, x2)
                     n == 1 + data.llm_calls
                 IN IF data.raised THEN [data EXCEPT !.llm_calls = n]
                    ELSE IF fast
                         THEN Returned(<<data.value, fast_seo(data.value)>>, n)
                         ELSE Returned(<<data.value, calculate_seo(data.value)>>, n)

\* ------------------------------------------------------------------- state
VARIABLES
    args,            \* the command line: script, start, max, max_retries, delay, fast_mode,
                     \* max_backoff, backoff_base, factor (--delay-increase-factor)
    plugged,         \* whether the generate the script imports is another one than the
                     \* repository's generator.generate (FALSE as shipped)
    prompt_ok,       \* whether PROMPT.format returns (FALSE as shipped)
    api_key,         \* whether OPENAI_API_KEY is set
    ambient_fast,    \* whether PDG_FAST_MODE is "1" in the environment the process starts in
    desc_files,      \* descriptions/<filename_base>.json, per index
    seo_files,       \* seo_reports/<filename_base>_seo.json, per index
    combined,        \* the rows of combined/combined.csv (the ledger), in file order
    run,             \* the number of the current process run, from 1
    pc,              \* where main is
    FAST_MODE,       \* generator.FAST_MODE, set when generator is imported
    environ_fast,    \* whether os.environ["PDG_FAST_MODE"] is "1" in this process
    idx,             \* the for loop's idx
    attempt,
    success,
    last_err_msg,    \* v2's last_err_msg / v1's last_exc: the exception's type, "" before any
    consecutive_429,
    base_delay,      \* v2: the number of times base_delay was multiplied by the factor
    wait,
    extra,           \* v2: the length of the cooldown sleep after the item just finished,
                     \* 0 if there was none
    result,          \* the pair generate returned, while it is being saved
    exc,             \* the exception being handled
    gen_calls,       \* history: generate calls of this run, per index
    gen_raised,      \* history: generate calls of this run that raised, per index
    handled,         \* history: exceptions the except clause handled in this run, per index
    skipped,         \* history: the indexes this run skipped at the resume check
    interrupted,     \* history: where KeyboardInterrupt ended this run: "no" (it did not),
                     \* "between items" (at the for statement) or "within item"
    call,            \* a function applied on its own: its name and arguments
    ret              \* what that function returned

vars ==
    <<args, prompt_ok, api_key, ambient_fast, desc_files, seo_files, combined, run, pc,
      FAST_MODE, environ_fast, idx, attempt, success, last_err_msg, consecutive_429,
      base_delay, wait, result, exc, gen_calls, gen_raised, handled, skipped,
      interrupted, plugged, call, ret, extra>>

config == <<args, prompt_ok, api_key, ambient_fast, plugged, call, ret>>
disk == <<desc_files, seo_files, combined>>

Items == 0..(NumItems - 1)

\* (--start, --max) pairs
Ranges == {<<0, 0>>, <<1, 1>>}

\* --delay, in tenths of a second
Delays == {-10, 10}

\* --delay-increase-factor as <<numerator, denominator>>
DefaultFactor == <<FACTOR_NUM, FACTOR_DEN>>

ArgSets ==
    [script : {"v1", "v2"}, range : Ranges, max_retries : (-1)..MaxRetriesBound,
     delay : Delays, fast_mode : BOOLEAN, max_backoff : {MAX_BACKOFF},
     backoff_base : {BACKOFF_BASE}, factor : {DefaultFactor}]

\* the index range of the for loop: v2 lines 100 and 105, v1 lines 96 and 98
start_index == args.range[1]
end_index ==
    IF args.range[2] = 0 THEN NumItems
    ELSE IF NumItems < args.range[1] + args.range[2] THEN NumItems
         ELSE args.range[1] + args.range[2]

\* <<prompt_ok, api_key, ambient_fast>>
Environments ==
    {<<TRUE, TRUE, FALSE>>, <<TRUE, TRUE, TRUE>>, <<FALSE, TRUE, FALSE>>,
     <<TRUE, FALSE, FALSE>>}

NoFile == [state |-> "absent", content |-> <<>>]
NoExc == [type |-> "None"]
NoCall == [fn |-> "None"]

\* os.path.exists(path)
exists(file) == file.state # "absent"

\* a process starts: the module-level code and main up to the for loop
StartProcess ==
    /\ pc = "for"
    /\ FAST_MODE = ambient_fast
    /\ environ_fast = ambient_fast
    /\ idx = start_index
    /\ attempt = 0
    /\ success = FALSE
    /\ last_err_msg = ""
    /\ consecutive_429 = 0
    /\ base_delay = 0
    /\ extra = 0
    /\ wait = 0
    /\ result = <<>>
    /\ exc = NoExc
    /\ gen_calls = [i \in Items |-> 0]
    /\ gen_raised = [i \in Items |-> 0]
    /\ handled = [i \in Items |-> 0]
    /\ skipped = {}
    /\ interrupted = "no"

Init ==
    /\ args \in ArgSets
    /\ \E env \in Environments :
           /\ prompt_ok = env[1]
           /\ api_key = env[2]
           /\ ambient_fast = env[3]
    /\ desc_files = [i \in Items |-> NoFile]
    /\ seo_files = [i \in Items |-> NoFile]
    /\ combined = <<>>
    /\ run = 1
    /\ plugged = FALSE
    /\ call = NoCall
    /\ ret = NoCall
    /\ StartProcess

\* The command lines tried with another generate: both scripts over all
\* items, with a cap the waits can reach, a cap below zero (argparse takes
\* any float), a delay that one growth step takes above that cap, and a
\* factor below and above 1.
PluggedArgSets ==
    [script : {"v1", "v2"}, range : {<<0, 0>>}, max_retries : 0..MaxRetriesBound,
     delay : {60}, fast_mode : {FALSE}, max_backoff : {-10, 80, MAX_BACKOFF},
     backoff_base : {BACKOFF_BASE}, factor : {<<1, 2>>, DefaultFactor}]

\* the scripts with another generate than the repository's
InitPlugged ==
    /\ args \in PluggedArgSets
    /\ prompt_ok = FALSE
    /\ api_key = TRUE
    /\ ambient_fast = FALSE
    /\ desc_files = [i \in Items |-> NoFile]
    /\ seo_files = [i \in Items |-> NoFile]
    /\ combined = <<>>
    /\ run = 1
    /\ plugged = TRUE
    /\ call = NoCall
    /\ ret = NoCall
    /\ StartProcess

\* ------------------------------------------------------ helpers of the scripts
RECURSIVE pow(_, _)
pow(b, n) == IF n = 0 THEN 1 ELSE b * pow(b, n - 1)

Min(a, b) == IF a <= b THEN a ELSE b
Max(a, b) == IF a >= b THEN a ELSE b

\* time.sleep(secs) raises ValueError for a negative argument
sleep_raises(secs) == secs < 0

\* the most multiplications of base_delay one run can make: one per attempt
MaxGrowth == NumItems * (MaxRetriesBound + 1)

\* v2's base_delay after k multiplications is args.delay * factor^k; this is
\* that value times denominator^MaxGrowth, an integer
scaled_delay(k) ==
    args.delay * pow(args.factor[1], k) * pow(args.factor[2], MaxGrowth - k)

base_delay_scaled == scaled_delay(base_delay)

\* random.uniform(-jitter_amt, jitter_amt), as a multiple of jitter_amt
JitterDraws == {-1, 0, 1}

\* calc_backoff without its clamp: expo plus the jitter
calc_backoff_unclamped(att, base, cap, u) ==
    LET expo == base * pow(2, att)
    IN expo + u * ((expo * JITTER_TENTHS) \div 10)

\* calc_backoff(attempt, base, cap, jitter=0.3), u the jitter draw
calc_backoff(att, base, cap, u) ==
    LET expo == base * pow(2, att)
        jitter_amt == (expo * JITTER_TENTHS) \div 10
        val == expo + u * jitter_amt
    IN Min(Max(MIN_BACKOFF, val), cap)

\* what a write, a replace or an append on the output directory does
IOOutcomes == {"ok", "OSError"}

\* safe_write_json, up to the point where the with block has written the
\* document: v1 opens the final path for writing, v2 opens path + ".tmp"
write_open(script, file) ==
    IF script = "v1" THEN [state |-> "partial", content |-> <<>>] ELSE file

\* safe_write_json without its os.replace: the temporary file stays beside
\* the final path
write_close_no_replace(script, file, obj) ==
    IF script = "v2" THEN file ELSE [state |-> "complete", content |-> obj]

\* safe_write_json, its end: v1 has dumped the document into the final path,
\* v2 has replaced the final path by the complete temporary file
write_close(script, file, obj) == [state |-> "complete", content |-> obj]

\* the OK row with the items counted from the end of the input
ok_row_reversed(script, i, r) ==
    [index |-> NumItems - 1 - i, description_file |-> "descriptions",
     seo_file |-> "seo_reports", status |-> IF script = "v2" THEN "OK" ELSE "",
     error |-> "", run |-> r]

\* the row main appends after a success (v1's header has no status and no
\* error column); run is not a column: it tells the runs' rows apart
ok_row(script, i, r) ==
    [index |-> i, description_file |-> "descriptions", seo_file |-> "seo_reports",
     status |-> IF script = "v2" THEN "OK" ELSE "", error |-> "", run |-> r]

\* the row main appends when the attempts are exhausted
failed_row(script, i, r, err) ==
    [index |-> i, description_file |-> "FAILED", seo_file |-> "FAILED",
     status |-> IF script = "v2" THEN "FAILED" ELSE "",
     error |-> IF script = "v2" THEN err ELSE "", run |-> r]

\* the process is gone: its locals no longer matter
Exit(how) ==
    /\ pc' = how
    /\ idx' = 0
    /\ gen_calls' = [i \in Items |-> 0]
    /\ gen_raised' = [i \in Items |-> 0]
    /\ handled' = [i \in Items |-> 0]
    /\ skipped' = {}
    /\ attempt' = 0
    /\ success' = FALSE
    /\ last_err_msg' = ""
    /\ consecutive_429' = 0
    /\ base_delay' = 0
    /\ extra' = 0
    /\ wait' = 0
    /\ result' = <<>>
    /\ exc' = NoExc

\* attempt, success, last_err_msg and wait are not read again before the
\* next item assigns them (v2 lines 126-128 and 171, v1 lines 122-123, 152)
ItemOver ==
    /\ attempt' = 0
    /\ success' = FALSE
    /\ last_err_msg' = ""
    /\ wait' = 0

locals ==
    <<attempt, success, last_err_msg, consecutive_429, base_delay, wait, extra, result, exc>>
counts == <<gen_calls, gen_raised, handled, skipped>>
fixed == <<config, run, FAST_MODE>>

\* the resume check that also skips an item the ledger already has a row for
ForLoop_skip_recorded ==
    /\ pc = "for"
    /\ IF idx >= end_index
       THEN Exit("done")
       ELSE IF \/ exists(desc_files[idx]) /\ exists(seo_files[idx])
               \/ \E k \in 1..Len(combined) : combined[k].index = idx
            THEN /\ skipped' = skipped \cup {idx}
                 /\ idx' = idx + 1
                 /\ UNCHANGED <<pc, locals, gen_calls, gen_raised, handled>>
            ELSE /\ attempt' = 0
                 /\ success' = FALSE
                 /\ last_err_msg' = ""
                 /\ pc' = "while"
                 /\ UNCHANGED <<idx, counts, consecutive_429, base_delay, extra, wait, result, exc>>
    /\ UNCHANGED <<fixed, disk, environ_fast, interrupted>>

\* ----------------------------------------------------------------- actions
\* the resume check without its continue: the item is reported as skipped
\* and processed all the same
ForLoop_no_continue ==
    /\ pc = "for"
    /\ IF idx >= end_index
       THEN Exit("done")
       ELSE /\ skipped' = IF exists(desc_files[idx]) /\ exists(seo_files[idx])
                          THEN skipped \cup {idx} ELSE skipped
            /\ attempt' = 0
            /\ success' = FALSE
            /\ last_err_msg' = ""
            /\ pc' = "while"
            /\ UNCHANGED <<idx, gen_calls, gen_raised, handled, consecutive_429, base_delay, extra,
                           wait, result, exc>>
    /\ UNCHANGED <<fixed, disk, environ_fast, interrupted>>

\* v2 lines 105-128, v1 lines 98-123: the for statement, the resume check
\* and the start of the item's retry loop
ForLoop ==
    /\ pc = "for"
    /\ IF idx >= end_index
       THEN Exit("done")
       ELSE IF exists(desc_files[idx]) /\ exists(seo_files[idx])
            THEN /\ skipped' = skipped \cup {idx}
                 /\ idx' = idx + 1
                 /\ UNCHANGED <<pc, locals, gen_calls, gen_raised, handled>>
            ELSE /\ attempt' = 0
                 /\ success' = FALSE
                 /\ last_err_msg' = ""
                 /\ pc' = "while"
                 /\ UNCHANGED <<idx, counts, consecutive_429, base_delay, extra, wait, result, exc>>
    /\ UNCHANGED <<fixed, disk, environ_fast, interrupted>>

\* the loop test with < for <=: one attempt fewer
WhileTest_off_by_one ==
    /\ pc = "while"
    /\ pc' = IF args.script = "v2"
             THEN IF attempt < args.max_retries /\ ~success THEN "try" ELSE "cooldown"
             ELSE IF attempt < args.max_retries THEN "try" ELSE "append_failed"
    /\ IF pc' = "cooldown" THEN ItemOver
       ELSE UNCHANGED <<attempt, success, last_err_msg, wait>>
    /\ UNCHANGED <<fixed, disk, environ_fast, idx, consecutive_429, base_delay, extra, result, exc,
                   counts, interrupted>>

\* v2 line 129, v1 line 124 (and its else clause, line 155)
WhileTest ==
    /\ pc = "while"
    /\ pc' = IF args.script = "v2"
             THEN IF attempt <= args.max_retries /\ ~success THEN "try" ELSE "cooldown"
             ELSE IF attempt <= args.max_retries THEN "try" ELSE "append_failed"
    /\ IF pc' = "cooldown" THEN ItemOver
       ELSE UNCHANGED <<attempt, success, last_err_msg, wait>>
    /\ UNCHANGED <<fixed, disk, environ_fast, idx, consecutive_429, base_delay, extra, result, exc,
                   counts, interrupted>>

\* the Retry-After header a failure of another generate can carry
PluggedHints == {<<>>, <<20>>, <<200>>}

\* What a generate other than the repository's can do and the scripts provide
\* for: "Import your generator function ... generate(name, features) ->
\* (result_json_dict, seo_report_dict)" (v1 lines 26-29, v2 line 23), and v2
\* lines 174-190 look for a requests HTTPError with a response.
PluggedOutcomes ==
    {Returned(<<d, calculate_seo(d)>>, 0) : d \in Docs}
    \cup {Raised([type |-> "HTTPError",
                  response |-> [status_code |-> 429, retry_after |-> h]], 0) :
              h \in PluggedHints}
    \cup {Raised([type |-> "HTTPError",
                  response |-> [status_code |-> 500, retry_after |-> <<>>]], 0),
          Raised([type |-> "TimeoutError"], 0)}

\* what one call of generate(name, features) can do
GenerateOutcomes ==
    IF plugged THEN PluggedOutcomes
    ELSE {generate(prompt_ok, api_key, FAST_MODE, x1, x2) : x1, x2 \in Exchanges}

\* v2 lines 130-138, v1 lines 125-126: the call of generate
TryGenerate ==
    /\ pc = "try"
    /\ environ_fast' = IF args.script = "v2" THEN args.fast_mode ELSE environ_fast
    /\ \E r \in GenerateOutcomes :
              /\ gen_calls' = [gen_calls EXCEPT ![idx] = @ + 1]
              /\ IF r.raised
                 THEN /\ gen_raised' = [gen_raised EXCEPT ![idx] = @ + 1]
                      /\ exc' = r.exc
                      /\ pc' = "except"
                      /\ UNCHANGED result
                 ELSE /\ result' = r.value
                      /\ pc' = "open_desc"
                      /\ UNCHANGED <<gen_raised, exc>>
    /\ UNCHANGED <<fixed, disk, idx, attempt, success, last_err_msg, consecutive_429,
                   base_delay, extra, wait, handled, skipped, interrupted>>

\* safe_write_json(desc_file, result), first half
OpenDesc ==
    /\ pc = "open_desc"
    /\ desc_files' = [desc_files EXCEPT ![idx] = write_open(args.script, @)]
    /\ pc' = "close_desc"
    /\ UNCHANGED <<fixed, seo_files, combined, environ_fast, idx, locals, counts,
                   interrupted>>

\* safe_write_json(desc_file, result), second half
CloseDesc ==
    /\ pc = "close_desc"
    /\ \E io \in IOOutcomes :
           IF io = "OSError"
           THEN /\ exc' = [type |-> "OSError"]
                /\ pc' = "except"
                /\ UNCHANGED desc_files
           ELSE /\ desc_files' =
                       [desc_files EXCEPT ![idx] = write_close(args.script, @, result[1])]
                /\ pc' = "open_seo"
                /\ UNCHANGED exc
    /\ UNCHANGED <<fixed, seo_files, combined, environ_fast, idx, attempt, success,
                   last_err_msg, consecutive_429, base_delay, extra, wait, result, counts,
                   interrupted>>

\* safe_write_json(seo_file, seo_report), first half
OpenSeo ==
    /\ pc = "open_seo"
    /\ seo_files' = [seo_files EXCEPT ![idx] = write_open(args.script, @)]
    /\ pc' = "close_seo"
    /\ UNCHANGED <<fixed, desc_files, combined, environ_fast, idx, locals, counts,
                   interrupted>>

\* safe_write_json(seo_file, seo_report), second half
CloseSeo ==
    /\ pc = "close_seo"
    /\ \E io \in IOOutcomes :
           IF io = "OSError"
           THEN /\ exc' = [type |-> "OSError"]
                /\ pc' = "except"
                /\ UNCHANGED seo_files
           ELSE /\ seo_files' =
                       [seo_files EXCEPT ![idx] = write_close(args.script, @, result[2])]
                /\ pc' = "append_ok"
                /\ UNCHANGED exc
    /\ UNCHANGED <<fixed, desc_files, combined, environ_fast, idx, attempt, success,
                   last_err_msg, consecutive_429, base_delay, extra, wait, result, counts,
                   interrupted>>

\* the success path that also puts the base delay back to --delay
AppendOk_resets_delay ==
    /\ pc = "append_ok"
    /\ \E io \in IOOutcomes :
           IF io = "OSError"
           THEN /\ exc' = [type |-> "OSError"]
                /\ pc' = "except"
                /\ UNCHANGED <<combined, success, consecutive_429, result, attempt,
                               last_err_msg, wait, base_delay>>
           ELSE /\ combined' = Append(combined, ok_row(args.script, idx, run))
                /\ result' = <<>>
                /\ IF args.script = "v2"
                   THEN /\ success' = TRUE
                        /\ consecutive_429' = 0
                        /\ base_delay' = 0
                        /\ pc' = "sleep_base"
                        /\ UNCHANGED <<attempt, last_err_msg, wait>>
                   ELSE /\ pc' = "polite"
                        /\ ItemOver
                        /\ UNCHANGED <<consecutive_429, base_delay>>
                /\ UNCHANGED exc
    /\ UNCHANGED <<fixed, desc_files, seo_files, environ_fast, idx, extra, counts,
                   interrupted>>

\* v2 lines 143-162, v1 lines 131-146: the OK row, and what follows it in
\* the try block up to the sleep
AppendOk ==
    /\ pc = "append_ok"
    /\ \E io \in IOOutcomes :
           IF io = "OSError"
           THEN /\ exc' = [type |-> "OSError"]
                /\ pc' = "except"
                /\ UNCHANGED <<combined, success, consecutive_429, result, attempt,
                               last_err_msg, wait>>
           ELSE /\ combined' = Append(combined, ok_row(args.script, idx, run))
                /\ result' = <<>>
                /\ IF args.script = "v2"
                   THEN /\ success' = TRUE
                        /\ consecutive_429' = 0
                        /\ pc' = "sleep_base"
                        /\ UNCHANGED <<attempt, last_err_msg, wait>>
                   ELSE /\ pc' = "polite"
                        /\ ItemOver
                        /\ UNCHANGED consecutive_429
                /\ UNCHANGED exc
    /\ UNCHANGED <<fixed, desc_files, seo_files, environ_fast, idx, base_delay, extra, counts,
                   interrupted>>

\* v2 line 164: time.sleep(base_delay), still inside the try block
SleepBase ==
    /\ pc = "sleep_base"
    /\ IF sleep_raises(base_delay_scaled)
       THEN /\ exc' = [type |-> "ValueError"]
            /\ pc' = "except"
       ELSE /\ pc' = "while"
            /\ UNCHANGED exc
    /\ UNCHANGED <<fixed, disk, environ_fast, idx, attempt, success, last_err_msg,
                   consecutive_429, base_delay, extra, wait, result, counts, interrupted>>

\* v2 lines 176-190: the exception is a requests HTTPError with a response
is_http_error(e) == e.type = "HTTPError" /\ "response" \in DOMAIN e

\* v2 lines 165-197, v1 lines 147-153: the except clause up to its sleep
Except ==
    /\ pc = "except"
    /\ last_err_msg' = exc.type
    /\ attempt' = attempt + 1
    /\ IF args.script = "v2"
       THEN /\ \E u \in JitterDraws :
                   wait' = IF is_http_error(exc) /\ exc.response.retry_after # <<>>
                           THEN Min(exc.response.retry_after[1] + 10, args.max_backoff)
                           ELSE calc_backoff(attempt' - 1, args.backoff_base,
                                             args.max_backoff, u)
            /\ IF is_http_error(exc) /\ exc.response.status_code = 429
               THEN /\ consecutive_429' = consecutive_429 + 1
                    /\ base_delay' = base_delay + 1
               ELSE UNCHANGED <<consecutive_429, base_delay>>
            /\ pc' = IF attempt' <= args.max_retries THEN "sleep_wait" ELSE "append_failed"
       ELSE /\ wait' = 10 * pow(2, attempt')
            /\ pc' = "sleep_wait"
            /\ UNCHANGED <<consecutive_429, base_delay>>
    /\ exc' = NoExc
    /\ result' = <<>>
    /\ handled' = [handled EXCEPT ![idx] = @ + 1]
    /\ UNCHANGED <<fixed, disk, environ_fast, idx, success, gen_calls, gen_raised, skipped,
                   interrupted, extra>>

\* v2 line 199, v1 line 154: time.sleep(wait) inside the except clause
SleepWait ==
    /\ pc = "sleep_wait"
    /\ IF sleep_raises(wait)
       THEN Exit("aborted")
       ELSE /\ pc' = "while"
            /\ wait' = 0
            /\ UNCHANGED <<idx, attempt, success, last_err_msg, consecutive_429, base_delay, extra,
                           result, exc, counts>>
    /\ UNCHANGED <<fixed, disk, environ_fast, interrupted>>

\* v2 lines 201-219 (inside the except clause), v1 lines 155-172 (the while
\* loop's else clause): the FAILED row.  An error of the append is raised
\* outside every try block that catches Exception.
AppendFailed ==
    /\ pc = "append_failed"
    /\ \E io \in IOOutcomes :
           IF io = "OSError"
           THEN /\ Exit("aborted")
                /\ UNCHANGED combined
           ELSE /\ combined' =
                       Append(combined, failed_row(args.script, idx, run, last_err_msg))
                /\ pc' = IF args.script = "v2" THEN "cooldown" ELSE "polite"
                /\ ItemOver
                /\ UNCHANGED <<idx, consecutive_429, base_delay, extra, result, exc, counts>>
    /\ UNCHANGED <<fixed, desc_files, seo_files, environ_fast, interrupted>>

\* Cooldown with the extra sleep not capped by --max-backoff
Cooldown_uncapped ==
    /\ pc = "cooldown"
    /\ LET secs == COOLDOWN_STEP * consecutive_429
       IN IF consecutive_429 > 0 /\ sleep_raises(secs)
          THEN Exit("aborted")
          ELSE /\ extra' = IF consecutive_429 > 0 THEN secs ELSE 0
               /\ idx' = idx + 1
               /\ pc' = "for"
               /\ UNCHANGED <<attempt, success, last_err_msg, consecutive_429, base_delay,
                              wait, result, exc, counts>>
    /\ UNCHANGED <<fixed, disk, environ_fast, interrupted>>

\* v2 lines 221-225: the extra sleep after the item, then the next item
Cooldown ==
    /\ pc = "cooldown"
    /\ LET secs == Min(COOLDOWN_STEP * consecutive_429, args.max_backoff)
       IN IF consecutive_429 > 0 /\ sleep_raises(secs)
          THEN Exit("aborted")
          ELSE /\ extra' = IF consecutive_429 > 0 THEN secs ELSE 0
               /\ idx' = idx + 1
               /\ pc' = "for"
               /\ UNCHANGED <<attempt, success, last_err_msg, consecutive_429, base_delay,
                              wait, result, exc, counts>>
    /\ UNCHANGED <<fixed, disk, environ_fast, interrupted>>

\* v1 line 175: time.sleep(delay) after the item, outside the inner try
Polite ==
    /\ pc = "polite"
    /\ IF sleep_raises(args.delay)
       THEN Exit("aborted")
       ELSE /\ idx' = idx + 1
            /\ pc' = "for"
            /\ UNCHANGED <<locals, counts>>
    /\ UNCHANGED <<fixed, disk, environ_fast, interrupted>>

\* Ctrl-C while main runs.  v2 has no handler: the process ends with the
\* traceback.  v1 lines 177-179: the loop body's handler breaks out of the
\* for loop and main returns.
KeyboardInterrupt ==
    /\ pc \notin {"done", "aborted"}
    /\ interrupted' = IF pc = "for" THEN "between items" ELSE "within item"
    /\ Exit(IF args.script = "v2" THEN "aborted" ELSE "done")
    /\ UNCHANGED <<fixed, disk, environ_fast>>

\* the same command line is run again over the same output directory
Rerun ==
    /\ pc \in {"done", "aborted"}
    /\ run < MaxRuns
    /\ run' = run + 1
    /\ pc' = "for"
    /\ FAST_MODE' = ambient_fast
    /\ environ_fast' = ambient_fast
    /\ idx' = start_index
    /\ interrupted' = "no"
    /\ UNCHANGED <<config, disk, locals, counts>>

Next ==
    \/ ForLoop
    \/ WhileTest
    \/ TryGenerate
    \/ OpenDesc
    \/ CloseDesc
    \/ OpenSeo
    \/ CloseSeo
    \/ AppendOk
    \/ SleepBase
    \/ Except
    \/ SleepWait
    \/ AppendFailed
    \/ Cooldown
    \/ Polite
    \/ KeyboardInterrupt
    \/ Rerun

Spec == Init /\ [][Next]_vars

\* The steps of the running script.  The interpreter runs one thread and
\* every call main makes returns or raises (the sleeps are finite), so a
\* process that is not stopped from outside keeps taking them.
Proceed ==
    \/ ForLoop
    \/ WhileTest
    \/ TryGenerate
    \/ OpenDesc
    \/ CloseDesc
    \/ OpenSeo
    \/ CloseSeo
    \/ AppendOk
    \/ SleepBase
    \/ Except
    \/ SleepWait
    \/ AppendFailed
    \/ Cooldown
    \/ Polite

\* the command lines of the runs whose termination is checked: both scripts
\* over all items
LiveArgSets == {a \in ArgSets : a.range = <<0, 0>> /\ ~a.fast_mode}

InitLive ==
    /\ args \in LiveArgSets
    /\ prompt_ok \in BOOLEAN
    /\ api_key = TRUE
    /\ ambient_fast = FALSE
    /\ desc_files = [i \in Items |-> NoFile]
    /\ seo_files = [i \in Items |-> NoFile]
    /\ combined = <<>>
    /\ run = 1
    /\ plugged = FALSE
    /\ call = NoCall
    /\ ret = NoCall
    /\ StartProcess

SpecLive == InitLive /\ [][Next]_vars /\ WF_vars(Proceed)

SpecPlugged == InitPlugged /\ [][Next]_vars

\* ------------------------------------------- the functions on their own
\* calc_backoff over attempts, bases (--backoff-base), caps (--max-backoff,
\* below and above the lower clamp) and jitter draws
BackoffCalls ==
    [fn : {"calc_backoff"}, attempt : 0..(MaxRetriesBound + 2), base : {-20, 1, 20},
     cap : {1, 5, 100, MAX_BACKOFF}, u : JitterDraws]

\* generate over what PROMPT.format, the API key, FAST_MODE and the network do
GenerateCalls ==
    [fn : {"generate"}, fmt_ok : BOOLEAN, key : BOOLEAN, fast : BOOLEAN,
     x1 : Exchanges, x2 : Exchanges]

\* everything but call and ret
program ==
    <<args, prompt_ok, api_key, ambient_fast, plugged, disk, run, pc, FAST_MODE,
      environ_fast, idx, locals, counts, interrupted>>

InitPure ==
    /\ args \in {a \in ArgSets : a.script = "v2" /\ a.range = <<0, 0>>
                                  /\ a.max_retries = 0 /\ a.delay = 10 /\ ~a.fast_mode}
    /\ prompt_ok = FALSE
    /\ api_key = TRUE
    /\ ambient_fast = FALSE
    /\ desc_files = [i \in Items |-> NoFile]
    /\ seo_files = [i \in Items |-> NoFile]
    /\ combined = <<>>
    /\ run = 1
    /\ plugged = FALSE
    /\ call \in BackoffCalls \cup GenerateCalls
    /\ ret = NoCall
    /\ StartProcess

\* wait = calc_backoff(attempt-1, args.backoff_base, args.max_backoff), v2 line 171
CalcBackoff ==
    /\ call.fn = "calc_backoff"
    /\ ret = NoCall
    /\ ret' = [value |-> calc_backoff(call.attempt, call.base, call.cap, call.u)]
    /\ UNCHANGED <<program, call>>

\* result, seo_report = generate(name, features), v2 line 138
Generate ==
    /\ call.fn = "generate"
    /\ ret = NoCall
    /\ ret' = generate(call.fmt_ok, call.key, call.fast, call.x1, call.x2)
    /\ UNCHANGED <<program, call>>

NextPure ==
    \/ CalcBackoff
    \/ Generate

SpecPure == InitPure /\ [][NextPure]_vars

\* ------------------------------------------------------------------ claims
InRun == pc \notin {"done", "aborted"}

\* the indexes of the for loop
IndexRange == start_index..(end_index - 1)

\* the positions of the ledger rows that run r appended for index i
RowsOf(i, r) == {k \in 1..Len(combined) : combined[k].index = i /\ combined[k].run = r}

\* a success row (v1 has no status column: its FAILED rows say so in description_file)
IsOkRow(row) == row.description_file # "FAILED"

HasOkRow(i, r) == \E k \in RowsOf(i, r) : IsOkRow(combined[k])
HasFailedRow(i, r) == \E k \in RowsOf(i, r) : ~IsOkRow(combined[k])

\* the runner has moved past item i in this run without skipping it
MovedPast(i) == InRun /\ i \in IndexRange /\ i < idx /\ i \notin skipped

\* the run has reached the end of its index range
RunComplete == pc = "for" /\ idx >= end_index

\* a command line with a non-negative retry count and a non-negative delay
SaneArgs == args.max_retries >= 0 /\ args.delay >= 0

\* C1: an item skipped at the resume check (both artifact files existed when
\* the loop reached it) has no generate call and no ledger row in that run.
C1_ResumeSkip ==
    \A i \in skipped : gen_calls[i] = 0 /\ RowsOf(i, run) = {}

\* a run that skipped an item, processed another one and reached its end
C1_Witness ==
    /\ RunComplete
    /\ \E i \in skipped : \E j \in IndexRange : gen_calls[j] > 0 /\ RowsOf(j, run) # {}

\* C2: in v2, every item of the index range the runner has moved past
\* without skipping it has exactly one ledger row of this run, whatever the
\* command line.
C2_ExactlyOneRow ==
    args.script = "v2" =>
        \A i \in Items : MovedPast(i) => Cardinality(RowsOf(i, run)) = 1

\* C3: every success row of the ledger refers to a description file and an
\* SEO file that both exist and are completely written.
C3_ArtifactBeforeLedger ==
    \A k \in 1..Len(combined) :
        IsOkRow(combined[k]) =>
            /\ desc_files[combined[k].index].state = "complete"
            /\ seo_files[combined[k].index].state = "complete"

\* v2 has just appended an OK row
C3_Witness ==
    /\ args.script = "v2"
    /\ pc = "sleep_base"
    /\ HasOkRow(idx, run)

\* C4: in v2 with sane arguments, no error ends the run: the process ends
\* early only on an interrupt.
C4_FailureIsLocal ==
    (args.script = "v2" /\ SaneArgs /\ pc = "aborted") => interrupted # "no"

\* C5 as stated: every item the runner has moved past without skipping it
\* had between 1 and max_retries + 1 generate calls, at most one of which
\* returned, and has a FAILED row exactly if max_retries + 1 generate calls
\* raised.
C5_Original ==
    \A i \in Items :
        MovedPast(i) =>
            /\ gen_calls[i] >= 1
            /\ gen_calls[i] <= args.max_retries + 1
            /\ gen_calls[i] - gen_raised[i] <= 1
            /\ HasFailedRow(i, run) <=> gen_raised[i] = args.max_retries + 1

\* C5, amended: an item that is not skipped has at most
\* max(0, max_retries + 1) generate calls at any time, and at least one once
\* the runner has moved past it if max_retries >= 0; no call is made for an
\* item whose OK row this run has appended; with max_retries >= 0 the item
\* has a FAILED row exactly if max_retries + 1 attempts raised (in generate,
\* in a write, in the OK-row append or in v2's polite sleep); with
\* max_retries < 0 no attempt is made, v1 appends the FAILED row and v2
\* appends no row.
C5_AttemptBound ==
    /\ \A i \in Items : gen_calls[i] <= Max(0, args.max_retries + 1)
    /\ (pc = "try" => ~HasOkRow(idx, run))
    /\ \A i \in Items :
           MovedPast(i) =>
               /\ args.max_retries >= 0 => gen_calls[i] >= 1
               /\ HasFailedRow(i, run) <=>
                      IF args.max_retries >= 0
                      THEN handled[i] = args.max_retries + 1
                      ELSE args.script = "v1"

\* an item got its FAILED row although a generate call for it had returned
C5_Witness ==
    \E i \in Items :
        /\ MovedPast(i)
        /\ args.max_retries >= 0
        /\ HasFailedRow(i, run)
        /\ gen_raised[i] < gen_calls[i]

C7_CooperativeCancellation ==
    (SaneArgs /\ interrupted # "no") => interrupted = "between items"

Is429(e) ==
    \/ e.type = "RuntimeError" /\ e.msg = <<"HTTP", 429>>
    \/ is_http_error(e) /\ e.response.status_code = 429

IsReduced(report) ==
    /\ report.suggestions = <<>>
    /\ DOMAIN report.metrics = {"title_length", "meta_length"}

BackoffApplied == call.fn = "calc_backoff" /\ ret # NoCall

\* C11 as stated: for every attempt, base, cap and jitter draw the delay
\* calc_backoff returns lies in [0.5 s, cap].
C11_Original ==
    BackoffApplied => (MIN_BACKOFF <= ret.value /\ ret.value <= call.cap)

\* C11, amended: the delay calc_backoff returns never exceeds cap; it lies
\* in [0.5 s, cap] when cap >= 0.5 s and equals cap when cap < 0.5 s.
C11_BackoffRange ==
    BackoffApplied =>
        /\ ret.value <= call.cap
        /\ IF call.cap >= MIN_BACKOFF THEN ret.value >= MIN_BACKOFF
           ELSE ret.value = call.cap

\* calc_backoff was applied with a cap below 0.5 s and returned the cap
C11_Witness ==
    /\ BackoffApplied
    /\ call.cap < MIN_BACKOFF
    /\ ret.value = call.cap

\* C12 as stated: with sane arguments, the index column of the ledger read
\* top to bottom is strictly increasing.
C12_Original ==
    SaneArgs =>
        \A k \in 1..(Len(combined) - 1) : combined[k].index < combined[k + 1].index

\* C12, amended: a later run's rows follow the earlier runs' rows; within one
\* run the index column is non-decreasing, and two rows of one run have the
\* same index only as the OK row of a v2 item followed by its FAILED row.
C12_LedgerOrder ==
    \A k \in 1..(Len(combined) - 1) :
        LET a == combined[k]
            b == combined[k + 1]
        IN /\ a.run <= b.run
           /\ a.run = b.run =>
                  /\ a.index <= b.index
                  /\ a.index = b.index =>
                         (args.script = "v2" /\ IsOkRow(a) /\ ~IsOkRow(b))

\* a run appended rows for two items in index order, and the next run
\* appended a row for a smaller index after them
C12_Witness ==
    \E k \in 1..(Len(combined) - 2) :
        /\ combined[k].run = combined[k + 1].run
        /\ combined[k].index < combined[k + 1].index
        /\ combined[k + 2].run > combined[k + 1].run
        /\ combined[k + 2].index < combined[k + 1].index

\* the keyword occurs in the text as a whole word, compared case-insensitively
whole_word(text, kw) == count_occurrences(text, lower(kw)) > 0

hint_of(e) ==
    IF is_http_error(e) THEN e.response.retry_after
    ELSE IF "cause" \in DOMAIN e THEN e.cause.response.retry_after
    ELSE <<>>

SameProcess == run' = run /\ pc' \notin {"done", "aborted"}

LoopEnds == args.script = "v2" /\ pc = "cooldown" /\ interrupted' = interrupted

\* the cooldown the penalty counter calls for
cooldown_secs == Min(COOLDOWN_STEP * consecutive_429, args.max_backoff)

HandlesFailure == SaneArgs /\ pc = "except" /\ interrupted' = interrupted

\* the wait w is a backoff computed from attempt index k: v2's calc_backoff
\* with some jitter draw (or the server's retry hint, C15), v1's power of two
backoff_from(k, w) ==
    IF args.script = "v2"
    THEN \/ \E u \in JitterDraws :
              w = calc_backoff(k, args.backoff_base, args.max_backoff, u)
         \/ hint_of(exc) # <<>> /\ w = Min(hint_of(exc)[1] + 10, args.max_backoff)
    ELSE w = 10 * pow(2, k)

\* C19: the handler of the k-th failed attempt of an item (attempt = k - 1
\* before it) goes to a backoff sleep exactly when attempts remain
\* (k <= maxRetries), with a wait computed from attempt index k - 1; after the
\* last failed attempt it goes to the FAILED row without a sleep.
C19_BackoffSleeps ==
    [][HandlesFailure =>
          IF attempt + 1 <= args.max_retries
          THEN pc' = "sleep_wait" /\ backoff_from(attempt, wait')
          ELSE pc' = "append_failed"]_vars

\* generate was called and has returned or raised
GenerateApplied == call.fn = "generate" /\ ret # NoCall

\* the first call_llm call of that generate returned a response text
FirstResponse == call.fmt_ok /\ call.key /\ call.x1.status = 200

\* the repair request was answered with a text that parses as JSON
RepairParses == call.x2.status = 200 /\ call.x2.content.valid

\* C20: one invocation of generate never makes more than two call_llm calls;
\* when its first response parses as JSON it makes exactly one, when it does
\* not it makes exactly two, and if the repair does not yield a text that
\* parses the invocation raises.
C20_OneRepair ==
    GenerateApplied =>
        /\ ret.llm_calls <= 2
        /\ FirstResponse =>
               IF call.x1.content.valid
               THEN ret.llm_calls = 1
               ELSE /\ ret.llm_calls = 2
                    /\ ~RepairParses => ret.raised

\* the first response did not parse, the repaired text did not parse either,
\* and generate raised after two calls
C20_Witness ==
    /\ GenerateApplied /\ FirstResponse
    /\ ~call.x1.content.valid
    /\ call.x2.status = 200 /\ ~call.x2.content.valid
    /\ ret.raised /\ ret.llm_calls = 2

\* the keys a GenerationResult must have
RequiredKeys ==
    {"title", "meta_description", "short_description", "long_description", "bullets",
     "keywords"}

\* the mapping d has every required key
has_required_keys(d) == RequiredKeys \subseteq DOMAIN d

Resolved(i) == i \in skipped \/ HasOkRow(i, run) \/ HasFailedRow(i, run)

\* the run was stopped by Ctrl-C
Interrupted == interrupted # "no"

\* the run is at the end of its index range with every item resolved
AllResolved == RunComplete /\ \A i \in IndexRange : Resolved(i)

\* C22: a run with a non-negative delay that is not stopped by Ctrl-C never
\* turns to an item before the items before it are resolved, and eventually
\* reaches the end of its index range with every item SKIPPED, SUCCEEDED or
\* FAILED.
C22_Termination ==
    /\ []((args.delay >= 0 /\ InRun) => \A i \in IndexRange : i < idx => Resolved(i))
    /\ <>(args.delay < 0 \/ Interrupted \/ AllResolved)

\* both artifact files of item i exist (what the resume check tests)
ArtifactPair(i) == exists(desc_files[i]) /\ exists(seo_files[i])

\* item i has its FAILED row in this run and every generate call for it raised
ExhaustedByGenerate(i) ==
    HasFailedRow(i, run) /\ gen_calls[i] > 0 /\ gen_raised[i] = gen_calls[i]

\* C23: in a run with sane arguments, an item whose attempts were exhausted
\* by failing generate calls has no artifact pair once its FAILED row is
\* there; and a rerun that has moved past an item with a FAILED row of the
\* run before and no artifact pair did not skip it, called generate for it
\* and appended a row of its own for that index.
C23_FailedStaysRetryable ==
    SaneArgs =>
        \A i \in IndexRange :
            /\ ExhaustedByGenerate(i) => ~ArtifactPair(i)
            /\ (/\ run > 1 /\ InRun /\ i < idx
                /\ HasFailedRow(i, run - 1) /\ ~ArtifactPair(i))
                   => i \notin skipped /\ gen_calls[i] >= 1 /\ RowsOf(i, run) # {}

\* the shipped build (every generate call raises): the second run has
\* attempted again an item that the first run recorded as FAILED, and has
\* appended its own FAILED row
C23_Witness ==
    /\ SaneArgs /\ ~prompt_ok /\ run = 2 /\ InRun
    /\ \E i \in IndexRange :
           /\ i < idx /\ HasFailedRow(i, 1) /\ ~ArtifactPair(i)
           /\ ExhaustedByGenerate(i)

\* the except clause of v2 is about to handle a failure that it classifies
\* as rate-limited: an HTTPError whose response has status 429 (lines 176, 185)
ClassifiesRateLimit ==
    pc = "except" /\ is_http_error(exc) /\ exc.response.status_code = 429

\* the base delay after the step is the base delay before it times the
\* growth factor
Multiplied ==
    scaled_delay(base_delay') * args.factor[2] = scaled_delay(base_delay) * args.factor[1]

====
